---------------------------- MODULE Spec2Model ----------------------------
(***************************************************************************)
(* vault-dash: a terminal dashboard that tails SAFE vault logfiles.        *)
(*                                                                         *)
(* Modelled here, from src/src/custom/app.rs and                           *)
(* src/src/bin/logtail-crossterm.rs:                                       *)
(*   - LogEntry::decode / parse_info_line, VaultMetrics (gather_metrics,   *)
(*     parse_start, parse_states) and LogMonitor (new, load_logfile,       *)
(*     process_line, append_to_content);                                   *)
(*   - App::new (startup) and the select! loop of main;                    *)
(*   - the background thread of initialise_events.                         *)
(*                                                                         *)
(* A log line is a sequence of tokens: the words of the line, which the    *)
(* text separates by single spaces.  The regular expressions of the code   *)
(* are evaluated on tokens; what a token looks like character by character *)
(* (four capitals, 35 characters, leading digits, ...) is given by the     *)
(* tables below for the tokens of the sample lines.                        *)
(*                                                                         *)
(* Option<T> is a sequence: None is << >>, Some(v) is <<v>>.               *)
(* --debug-parser is off (its default), so debug_logfile is None.          *)
(***************************************************************************)
EXTENDS Integers, Sequences, FiniteSets, TLC

\* ------------------------------------------------------------------------
\* Bounds of the model
\* ------------------------------------------------------------------------
\* lines given to one monitor in the monitor specification
MaxLines == 3
\* largest configured capacity (--lines-max) tried
MaxCap == 2

None == << >>
Some(v) == <<v>>

Last(s) == s[Len(s)]
Front(s) == SubSeq(s, 1, Len(s) - 1)

\* ------------------------------------------------------------------------
\* Tokens of the sample lines and their character-level properties
\* ------------------------------------------------------------------------
TS1 == "2020-07-08T19:58:26.000000001+01:00"
TS2 == "2020-07-08T19:58:27.000000002+01:00"
TSBAD == "XXXX-07-08T19:58:26.841778689+01:00"
TSSHORT == "2020-07-08T19:58:26+01:00"
SRCVAULT == "[src/vault.rs:1]"
SRCMAIN == "[src/main.rs:7]"

\* [A-Z]{4}: the tokens that are exactly four capital letters
IsFourUpper(tok) == tok \in {"INFO", "WARN"}
\* [^ ]{35}: the tokens that are exactly 35 characters long
Is35Chars(tok) == tok \in {TS1, TS2, TSBAD}
\* tokens starting with '[' and tokens ending with ']'
StartsBracket(tok) == tok \in {SRCVAULT, SRCMAIN}
EndsBracket(tok) == tok \in {SRCVAULT, SRCMAIN}
\* tokens that contain the text "vault.rs"
ContainsVaultRs(tok) == tok \in {SRCVAULT, "vault.rs"}
\* \d+ at the start of a token: its leading digits ("" when there are none)
LeadingDigits(tok) == IF tok \in {"7", "3"} THEN tok ELSE ""
\* [[:alpha:]]+ at the start of a token: its leading letters
LeadingAlpha(tok) ==
    CASE tok \in {"INFO", "WARN", "Info", "Running", "started", "Vault",
                  "promoted", "to", "Elder", "Adult", "Child", "Infant",
                  "Initializing", "new", "as", "of"} -> tok
      [] tok = "No." -> "No"
      [] tok = "Elders:" -> "Elders"
      [] tok = "Adults:" -> "Adults"
      [] tok = "safe-vault" -> "safe"
      [] tok = "vault.rs" -> "vault"
      [] tok = "v0.24.0" -> "v"
      [] tok = "XXXX-07-08T19:58:26.841778689+01:00" -> "XXXX"
      [] OTHER -> ""

\* a variant that reads a time out of a malformed timestamp
parse_from_rfc3339_lenient(tok) ==
    CASE tok = TS1 -> Some(1)
      [] tok = TS2 -> Some(2)
      [] tok = TSSHORT -> Some(1)
      [] OTHER -> Some(1)

\* chrono's DateTime::parse_from_rfc3339 on a token; a time is the number
\* of seconds after 19:58:25 +01:00 on 2020-07-08
parse_from_rfc3339(tok) ==
    CASE tok = TS1 -> Some(1)
      [] tok = TS2 -> Some(2)
      [] tok = TSSHORT -> Some(1)
      [] OTHER -> None

\* format!("{}", time) of an Option<DateTime>, as parser_output shows it
TimeStr(t) ==
    CASE t = None -> "None"
      [] t = Some(1) -> "2020-07-08 19:58:26.000000001 +01:00"
      [] t = Some(2) -> "2020-07-08 19:58:27.000000002 +01:00"
      [] OTHER -> "?"

\* ------------------------------------------------------------------------
\* Sample lines
\* ------------------------------------------------------------------------
L_INFO1 == <<"INFO", TS1, SRCMAIN, "started">>
L_WARN2 == <<"WARN", TS2, SRCMAIN, "started">>
L_BADTS == <<"INFO", TSBAD, SRCMAIN, "started">>
L_SHORT == <<"INFO", TSSHORT, SRCMAIN, "started">>
L_NOMSG == <<"INFO", TS1, SRCMAIN>>
L_LOWER == <<"Info", TS1, SRCMAIN, "started">>
L_EMPTY == << >>
L_START == <<"Running", "safe-vault", "v0.24.0">>
L_ELDER == <<"INFO", TS2, SRCVAULT, "Vault", "promoted", "to", "Elder">>
L_ADULT == <<"INFO", TSBAD, SRCVAULT, "Vault", "promoted", "to", "Adult">>
L_CHILD == <<"INFO", TS1, SRCVAULT, "Initializing", "new", "Vault", "as", "Child">>
L_INFANT == <<"INFO", TS1, SRCVAULT, "Initializing", "new", "Vault", "as", "Infant">>
L_ELDERS == <<"INFO", TS1, SRCVAULT, "No.", "of", "Elders:", "7">>
L_ADULTS == <<"INFO", TS2, SRCVAULT, "No.", "of", "Adults:", "3">>
L_BOTH == <<"INFO", TS1, SRCVAULT, "Vault", "promoted", "to", "Elder",
            "No.", "of", "Elders:", "7">>
L_ADULTSPROMO == <<"INFO", TS1, SRCVAULT, "Vault", "promoted", "to", "Elder",
                   "No.", "of", "Adults:", "3">>
L_COUNTS == <<"INFO", TS2, SRCVAULT, "No.", "of", "Adults:", "3",
              "No.", "of", "Elders:", "7">>
L_RAWPROMO == <<"vault.rs", "Vault", "promoted", "to", "Elder">>
L_NOVAULT == <<"INFO", TS1, SRCMAIN, "Vault", "promoted", "to", "Elder">>
L_STARTPROMO == <<"Running", "safe-vault", "vault.rs", "Vault", "promoted",
                  "to", "Adult">>

\* every sample line
AllLines ==
    {L_INFO1, L_WARN2, L_BADTS, L_SHORT, L_NOMSG, L_LOWER, L_EMPTY, L_START,
     L_ELDER, L_ADULT, L_CHILD, L_INFANT, L_ELDERS, L_ADULTS, L_BOTH,
     L_ADULTSPROMO, L_COUNTS, L_RAWPROMO, L_NOVAULT, L_STARTPROMO}

\* the lines fed to a monitor in the monitor specification
Lines ==
    {L_INFO1, L_WARN2, L_BADTS, L_START, L_ELDER, L_ADULT, L_CHILD, L_INFANT,
     L_ELDERS, L_ADULTS, L_BOTH, L_ADULTSPROMO, L_COUNTS, L_RAWPROMO,
     L_NOVAULT, L_STARTPROMO}

\* the lines appended to its content without metrics, as live lines are
AppendLines == {L_RAWPROMO}

\* ------------------------------------------------------------------------
\* LogEntry: the line decoder
\* ------------------------------------------------------------------------
MaxOf(S) == CHOOSE x \in S : \A y \in S : y <= x

\* LOG_LINE_PATTERN:
\*   (?P<category>^[A-Z]{4}) (?P<time_string>[^ ]{35}) (?P<source>\[.*\]) (?P<message>.*)
\* the token positions at which the source group can end: a token ending in
\* ']' that a space (hence a further token) follows
SourceEnds(line) == {j \in 3..(Len(line) - 1) : EndsBracket(line[j])}

LOG_LINE_PATTERN(line) ==
    /\ Len(line) >= 4
    /\ IsFourUpper(line[1])
    /\ Is35Chars(line[2])
    /\ StartsBracket(line[3])
    /\ SourceEnds(line) # {}

parse_info_line(line) ==
    IF ~LOG_LINE_PATTERN(line) THEN None
    ELSE LET category == line[1]
             time_string == line[2]
             srcEnd == MaxOf(SourceEnds(line))
             source == SubSeq(line, 3, srcEnd)
             message == SubSeq(line, srcEnd + 1, Len(line))
             time == parse_from_rfc3339(time_string)
         IN Some([logstring |-> line,
                  category |-> category,
                  time |-> time,
                  source |-> source,
                  message |-> message,
                  parser_output |-> <<"c:", category, "t:", TimeStr(time), "s:">>
                                     \o source \o <<"m:">> \o message])

LogEntry_decode(line) ==
    IF line = << >> THEN None ELSE parse_info_line(line)

\* ------------------------------------------------------------------------
\* VaultMetrics: the metrics engine
\* ------------------------------------------------------------------------
VaultMetrics_new ==
    [vault_started |-> None,
     running_message |-> None,
     running_version |-> None,
     category_count |-> << >>,
     timeline |-> << >>,
     most_recent |-> None,
     agebracket |-> "Child",
     adults |-> 0,
     elders |-> 0,
     parser_output |-> <<"-">>]

\* line.starts_with("Running safe-vault ")
StartsWithRunningPrefix(line) ==
    /\ Len(line) >= 3
    /\ line[1] = "Running"
    /\ line[2] = "safe-vault"

\* a variant that records the whole banner as the version and leaves the
\* start timestamp alone
parse_start_whole_line(m, line) ==
    IF StartsWithRunningPrefix(line)
    THEN [metrics |-> [m EXCEPT !.running_message = Some(line),
                                !.running_version = Some(line)],
          entry |-> Some([logstring |-> line,
                          category |-> "START",
                          time |-> m.most_recent,
                          source |-> << >>,
                          message |-> line,
                          parser_output |-> <<"START at", TimeStr(m.most_recent)>>])]
    ELSE [metrics |-> m, entry |-> None]

\* parse_start: the metrics after the call and the entry it returns
parse_start(m, line) ==
    IF StartsWithRunningPrefix(line)
    THEN [metrics |-> [m EXCEPT !.running_message = Some(line),
                                !.running_version = Some(SubSeq(line, 3, Len(line))),
                                !.vault_started = m.most_recent],
          entry |-> Some([logstring |-> line,
                          category |-> "START",
                          time |-> m.most_recent,
                          source |-> << >>,
                          message |-> line,
                          parser_output |-> <<"START at", TimeStr(m.most_recent)>>])]
    ELSE [metrics |-> m, entry |-> None]

\* The four alternatives of the pattern of parse_states, each
\*   ^.*vault\.rs.*<phrase>(<capture>)
\* PhraseEnds: the positions of the token captured after the phrase, when a
\* token containing "vault.rs" comes before the phrase.
PhraseAt(line, j, phrase) ==
    /\ j >= 1
    /\ j + Len(phrase) - 1 <= Len(line)
    /\ \A k \in 1..Len(phrase) : line[j + k - 1] = phrase[k]

\* a variant whose pattern lacks the leading vault\.rs
PhraseEnds_anywhere(line, phrase) ==
    {c \in 1..Len(line) : PhraseAt(line, c - Len(phrase), phrase)}

PhraseEnds(line, phrase) ==
    {c \in 1..Len(line) :
        /\ PhraseAt(line, c - Len(phrase), phrase)
        /\ \E i \in 1..(c - Len(phrase) - 1) : ContainsVaultRs(line[i])}

EldersCaptures(line) ==
    {c \in PhraseEnds(line, <<"No.", "of", "Elders:">>) : LeadingDigits(line[c]) # ""}
AdultsCaptures(line) ==
    {c \in PhraseEnds(line, <<"No.", "of", "Adults:">>) : LeadingDigits(line[c]) # ""}
InitasCaptures(line) ==
    {c \in PhraseEnds(line, <<"Initializing", "new", "Vault", "as">>) :
        LeadingAlpha(line[c]) # ""}
PromotetoCaptures(line) ==
    {c \in PhraseEnds(line, <<"Vault", "promoted", "to">>) : LeadingAlpha(line[c]) # ""}

\* a variant that tries the alternatives in the opposite order
StateCaptures_reversed(line) ==
    CASE PromotetoCaptures(line) # {} ->
           [alt |-> "promoteto", text |-> LeadingAlpha(line[MaxOf(PromotetoCaptures(line))])]
      [] InitasCaptures(line) # {} ->
           [alt |-> "initas", text |-> LeadingAlpha(line[MaxOf(InitasCaptures(line))])]
      [] AdultsCaptures(line) # {} ->
           [alt |-> "adults", text |-> LeadingDigits(line[MaxOf(AdultsCaptures(line))])]
      [] EldersCaptures(line) # {} ->
           [alt |-> "elders", text |-> LeadingDigits(line[MaxOf(EldersCaptures(line))])]
      [] OTHER -> [alt |-> "none", text |-> ""]

\* re.captures(logstring): the alternative that matches (the first one in
\* the order of the pattern) and its capture (.* is greedy: the last
\* occurrence of the phrase)
StateCaptures(line) ==
    CASE EldersCaptures(line) # {} ->
           [alt |-> "elders", text |-> LeadingDigits(line[MaxOf(EldersCaptures(line))])]
      [] AdultsCaptures(line) # {} ->
           [alt |-> "adults", text |-> LeadingDigits(line[MaxOf(AdultsCaptures(line))])]
      [] InitasCaptures(line) # {} ->
           [alt |-> "initas", text |-> LeadingAlpha(line[MaxOf(InitasCaptures(line))])]
      [] PromotetoCaptures(line) # {} ->
           [alt |-> "promoteto", text |-> LeadingAlpha(line[MaxOf(PromotetoCaptures(line))])]
      [] OTHER -> [alt |-> "none", text |-> ""]

\* a variant that takes an unrecognised word for Child
AgebracketOf_lenient(word) ==
    CASE word = "Child" -> "Child"
      [] word = "Adult" -> "Adult"
      [] word = "Elder" -> "Elder"
      [] OTHER -> "Child"

AgebracketOf(word) ==
    CASE word = "Child" -> "Child"
      [] word = "Adult" -> "Adult"
      [] word = "Elder" -> "Elder"
      [] OTHER -> "Unknown"

\* parse_states: the metrics after the call (the bool it returns is unused)
parse_states(m, entry) ==
    LET cap == StateCaptures(entry.logstring)
    IN CASE cap.alt = "elders" ->
              [m EXCEPT !.parser_output = <<"ELDERS:", cap.text>>]
         [] cap.alt = "adults" ->
              [m EXCEPT !.parser_output = <<"ADULTS:", cap.text>>]
         [] cap.alt \in {"initas", "promoteto"} ->
              [m EXCEPT !.parser_output = <<"Vault agebracket:", cap.text>>,
                        !.agebracket = AgebracketOf(cap.text)]
         [] OTHER -> m

\* a variant that never records the time of an entry as most_recent
gather_metrics_stale(m, line) ==
    LET decoded == LogEntry_decode(line)
        started == IF decoded = None THEN parse_start(m, line)
                   ELSE [metrics |-> m, entry |-> decoded]
        m1 == started.metrics
    IN IF started.entry = None THEN m1
       ELSE LET e0 == started.entry[1]
                entry == IF e0.time = None
                         THEN [e0 EXCEPT !.time = m1.most_recent]
                         ELSE e0
                m3 == [m1 EXCEPT !.parser_output = entry.parser_output]
                m4 == parse_states(m3, entry)
            IN [m4 EXCEPT !.timeline = Append(m4.timeline, entry)]

\* gather_metrics (debug_logfile is None, so the result is always Ok)
gather_metrics(m, line) ==
    LET decoded == LogEntry_decode(line)
        started == IF decoded = None THEN parse_start(m, line)
                   ELSE [metrics |-> m, entry |-> decoded]
        m1 == started.metrics
    IN IF started.entry = None THEN m1
       ELSE LET e0 == started.entry[1]
                entry == IF e0.time = None
                         THEN [e0 EXCEPT !.time = m1.most_recent]
                         ELSE e0
                m2 == IF e0.time = None THEN m1
                      ELSE [m1 EXCEPT !.most_recent = e0.time]
                m3 == [m2 EXCEPT !.parser_output = entry.parser_output]
                m4 == parse_states(m3, entry)
            IN [m4 EXCEPT !.timeline = Append(m4.timeline, entry)]

\* ------------------------------------------------------------------------
\* LogMonitor
\* ------------------------------------------------------------------------
LogMonitor_new(index, f, max_lines) ==
    [index |-> index,
     logfile |-> f,
     max_content |-> max_lines,
     metrics |-> VaultMetrics_new,
     content |-> << >>]

\* a variant that keeps the first max_content lines instead of the last
append_to_content_truncate(monitor, text) ==
    LET pushed == Append(monitor.content, text)
    IN [monitor EXCEPT !.content =
            IF Len(pushed) > monitor.max_content
            THEN SubSeq(pushed, 1, monitor.max_content)
            ELSE pushed]

append_to_content(monitor, text) ==
    LET pushed == Append(monitor.content, text)
    IN [monitor EXCEPT !.content =
            IF Len(pushed) > monitor.max_content
            THEN SubSeq(pushed, Len(pushed) - monitor.max_content + 1, Len(pushed))
            ELSE pushed]

\* a variant that keeps out of the content the lines that do not decode
process_line_decoded_only(monitor, line) ==
    LET m == gather_metrics(monitor.metrics, line)
    IN IF m.timeline = monitor.metrics.timeline
       THEN monitor
       ELSE append_to_content([monitor EXCEPT !.metrics = m], line)

process_line(monitor, line) ==
    append_to_content(
        [monitor EXCEPT !.metrics = gather_metrics(monitor.metrics, line)], line)

\* ------------------------------------------------------------------------
\* State
\* ------------------------------------------------------------------------
Paths == {"a", "b"}

\* events sent and tailed items delivered in one run of the program
MaxEvents == 2
MaxTail == 2

\* opt.files: the configured paths (the tail source may also name a path
\* under which no monitor is kept)
OptFiles == {<<"a">>, <<"a", "b">>}

\* what a path holds at startup: nothing, a file File::open refuses, a file
\* whose lines cannot be read, or a readable file
SampleFile == <<L_INFO1, L_RAWPROMO, L_ADULT>>
FileStates ==
    {[kind |-> "missing", lines |-> << >>],
     [kind |-> "denied", lines |-> << >>],
     [kind |-> "unreadable", lines |-> << >>],
     [kind |-> "file", lines |-> SampleFile]}

\* Event<KeyEvent>: Tick, or Input with the key's code
TickEvent == [kind |-> "Tick", code |-> ""]
InputEvent(code) == [kind |-> "Input", code |-> code]
Events == {TickEvent, InputEvent("q"), InputEvent("v"), InputEvent("x")}

\* what MuxedLines::next yields: Some(Ok(line)) with its source, or Some(Err)
TailLine(source, line) == [kind |-> "line", source |-> source, line |-> line]
TailErr == [kind |-> "err", source |-> "", line |-> << >>]
TailItems == {TailLine(p, L_ELDER) : p \in Paths} \cup {TailErr}

VARIABLES
    monitors,     \* App.monitors: path -> LogMonitor
    processed,    \* history: per path, the lines given to process_line
    appended,     \* history: per path, the lines given to append_to_content
    opt,          \* Opt: files, lines_max, ignore_existing
    fs,           \* the file system at startup: path -> FileStates
    NEXT_MONITOR, \* the process-wide counter of monitor indices
    pc,           \* where the main thread is
    fi,           \* App::new: position in opt.files
    li,           \* load_logfile: position in the file's lines
    monitor,      \* App::new: the monitor under construction (Option)
    registered,   \* the paths added to the tail source (logfiles.add_file)
    raw_mode,     \* the terminal is in raw mode
    alt_screen,   \* the terminal shows the alternate screen
    main_view,    \* dash_state.main_view
    chan,         \* the event channel: events sent and not yet received
    txAlive,      \* the background thread runs and holds the Sender
    rxAlive,      \* main holds the Receiver
    tailq,        \* tailed items ready in app.logfiles, oldest first
    sent,         \* history: the events sent on the channel
    delivered,    \* history: the tailed items made ready
    evHandled,    \* history: the events the loop has handled
    lnHandled,    \* history: the tailed items the loop has handled
    tick_rate,    \* initialise_events: the tick interval
    now,          \* the monotonic clock (Instant::now())
    last_tick,    \* the background thread's last_tick
    bgpc,         \* where the background thread is
    poll_deadline,\* when the event::poll in progress times out
    iterTicks,    \* history: the deadlines (last_tick + tick_rate) of the
                  \* Ticks sent in the current turn of the thread's loop
    lastSend,     \* history: how the thread's latest tx.send ended
    callPc,       \* callers of LogMonitor::new: where each is
    callIdx,      \* ... the index its fetch_add returned
    callSeen,     \* ... the indices of the monitors built before its call
    created,      \* the monitors LogMonitor::new has returned, in order
    createdSeen   \* history: for each of them, its caller's callSeen

monVars == <<monitors, processed, appended>>
progVars == <<opt, fs, NEXT_MONITOR, pc, fi, li, monitor, registered, raw_mode, alt_screen,
              main_view, chan, txAlive, rxAlive, tailq, sent, delivered,
              evHandled, lnHandled>>
evVars == <<tick_rate, now, last_tick, bgpc, poll_deadline, iterTicks, lastSend>>
newVars == <<callPc, callIdx, callSeen, created, createdSeen>>
vars == <<monVars, progVars, evVars, newVars>>

\* HashMap::insert
Insert(map, key, value) ==
    [k \in DOMAIN map \cup {key} |-> IF k = key THEN value ELSE map[k]]

\* the program before main has started
ProgramAtStart ==
    /\ NEXT_MONITOR = 0
    /\ pc = "new"
    /\ fi = 1
    /\ li = 1
    /\ monitor = None
    /\ registered = {}
    /\ raw_mode = FALSE
    /\ alt_screen = FALSE
    /\ main_view = "DashHorizontal"
    /\ chan = << >>
    /\ txAlive = FALSE
    /\ rxAlive = FALSE
    /\ tailq = << >>
    /\ sent = << >>
    /\ delivered = << >>
    /\ evHandled = << >>
    /\ lnHandled = << >>

\* the background thread before it is spawned
EventsAtStart ==
    /\ now = 0
    /\ last_tick = 0
    /\ bgpc = "start"
    /\ poll_deadline = 0
    /\ iterTicks = << >>
    /\ lastSend = "none"

Callers == {"c1", "c2", "c3"}

NoCallers ==
    /\ callPc = [c \in Callers |-> "idle"]
    /\ callIdx = [c \in Callers |-> 0]
    /\ callSeen = [c \in Callers |-> {}]
    /\ created = << >>
    /\ createdSeen = << >>

NoHistory ==
    /\ processed = [p \in Paths |-> << >>]
    /\ appended = [p \in Paths |-> << >>]

\* ------------------------------------------------------------------------
\* Monitor specification: one LogMonitor of any capacity, driven through
\* its two public line operations
\* ------------------------------------------------------------------------
InitMonitor ==
    /\ \E cap \in 0..MaxCap : monitors = [p \in {"a"} |-> LogMonitor_new(0, "a", cap)]
    /\ NoHistory
    /\ opt = [files |-> <<"a">>, lines_max |-> monitors["a"].max_content,
              ignore_existing |-> FALSE]
    /\ fs = [p \in Paths |-> [kind |-> "missing", lines |-> << >>]]
    /\ ProgramAtStart
    /\ tick_rate = 0
    /\ EventsAtStart
    /\ NoCallers

MonProcessLine(line) ==
    /\ Len(appended["a"]) < MaxLines
    /\ monitors' = [monitors EXCEPT !["a"] = process_line(@, line)]
    /\ processed' = [processed EXCEPT !["a"] = Append(@, line)]
    /\ appended' = [appended EXCEPT !["a"] = Append(@, line)]
    /\ UNCHANGED progVars
    /\ UNCHANGED <<evVars, newVars>>

MonAppendToContent(line) ==
    /\ Len(appended["a"]) < MaxLines
    /\ monitors' = [monitors EXCEPT !["a"] = append_to_content(@, line)]
    /\ appended' = [appended EXCEPT !["a"] = Append(@, line)]
    /\ UNCHANGED <<processed, progVars>>
    /\ UNCHANGED <<evVars, newVars>>

NextMonitor ==
    \/ \E line \in Lines : MonProcessLine(line)
    \/ \E line \in AppendLines : MonAppendToContent(line)

SpecMonitor == InitMonitor /\ [][NextMonitor]_vars

\* ------------------------------------------------------------------------
\* The program: App::new, then the select! loop of main.  The background
\* thread of initialise_events appears here by what it does to the channel
\* (MuxSend, MuxDie); its own steps are the events specification below.
\* ------------------------------------------------------------------------
\* --lines-max is MaxCap here; the capacities from 0 up are tried on one
\* monitor in SpecMonitor.  Under --ignore-existing the files are not opened,
\* so only readable ones are tried there.
Init ==
    /\ monitors = << >>
    /\ NoHistory
    /\ opt \in [files : OptFiles, lines_max : {MaxCap}, ignore_existing : BOOLEAN]
    /\ fs \in [Paths -> FileStates]
    /\ \A p \in Paths :
          IF \A i \in 1..Len(opt.files) : opt.files[i] # p
          THEN fs[p].kind = "missing"
          ELSE opt.ignore_existing => fs[p].kind = "file"
    /\ ProgramAtStart
    /\ tick_rate = 0
    /\ EventsAtStart
    /\ NoCallers

\* NEXT_MONITOR.fetch_add(1, Ordering::Relaxed): the value read and the
\* value left in the counter
\* a variant that reads the counter and leaves it as it was
fetch_add_load(counter) == [prev |-> counter, next |-> counter]

fetch_add(counter) == [prev |-> counter, next |-> counter + 1]

CurrentFile == opt.files[fi]

\* App::new, the head of one turn of `for f in &opt.files`: the monitor is
\* constructed and, under --ignore-existing, inserted at once
NewMonitor ==
    /\ pc = "new"
    /\ LET fa == fetch_add(NEXT_MONITOR)
           m == LogMonitor_new(fa.prev, CurrentFile, opt.lines_max)
       IN /\ NEXT_MONITOR' = fa.next
          /\ IF opt.ignore_existing
             THEN /\ monitors' = Insert(monitors, CurrentFile, m)
                  /\ monitor' = None
                  /\ pc' = "add_file"
             ELSE /\ monitor' = Some(m)
                  /\ pc' = "open"
                  /\ UNCHANGED monitors
    /\ UNCHANGED <<processed, appended, opt, fs, fi, li, registered, raw_mode, alt_screen,
                   main_view, chan, txAlive, rxAlive, tailq, sent, delivered,
                   evHandled, lnHandled>>
    /\ UNCHANGED <<evVars, newVars>>

\* File::open fails: load_logfile returns Ok(()) whatever the error, and
\* App::new inserts the empty monitor
open_fails(file) == file.kind \in {"missing", "denied"}

OpenLogfileErr ==
    /\ pc = "open"
    /\ open_fails(fs[CurrentFile])
    /\ monitors' = Insert(monitors, CurrentFile, monitor[1])
    /\ monitor' = None
    /\ pc' = "add_file"
    /\ UNCHANGED <<processed, appended, opt, fs, NEXT_MONITOR, fi, li, registered,
                   raw_mode, alt_screen, main_view, chan, txAlive, rxAlive, tailq, sent,
                   delivered, evHandled, lnHandled>>
    /\ UNCHANGED <<evVars, newVars>>

OpenLogfileOk ==
    /\ pc = "open"
    /\ ~open_fails(fs[CurrentFile])
    /\ pc' = "load"
    /\ li' = 1
    /\ UNCHANGED <<monVars, opt, fs, NEXT_MONITOR, fi, monitor, registered,
                   raw_mode, alt_screen, main_view, chan, txAlive, rxAlive, tailq, sent,
                   delivered, evHandled, lnHandled>>
    /\ UNCHANGED <<evVars, newVars>>

\* load_logfile: one turn of `for line in f.lines()`
LoadLine ==
    /\ pc = "load"
    /\ fs[CurrentFile].kind = "file"
    /\ li <= Len(fs[CurrentFile].lines)
    /\ LET line == fs[CurrentFile].lines[li]
       IN /\ monitor' = Some(process_line(monitor[1], line))
          /\ processed' = [processed EXCEPT ![CurrentFile] = Append(@, line)]
          /\ appended' = [appended EXCEPT ![CurrentFile] = Append(@, line)]
    /\ li' = li + 1
    /\ UNCHANGED <<monitors, opt, fs, NEXT_MONITOR, pc, fi, registered, raw_mode, alt_screen,
                   main_view, chan, txAlive, rxAlive, tailq, sent, delivered,
                   evHandled, lnHandled>>
    /\ UNCHANGED <<evVars, newVars>>

\* line.expect("Unable to read line") on a read error
LoadPanic ==
    /\ pc = "load"
    /\ fs[CurrentFile].kind = "unreadable"
    /\ pc' = "startup_panicked"
    /\ UNCHANGED <<monVars, opt, fs, NEXT_MONITOR, fi, li, monitor, registered,
                   raw_mode, alt_screen, main_view, chan, txAlive, rxAlive, tailq, sent,
                   delivered, evHandled, lnHandled>>
    /\ UNCHANGED <<evVars, newVars>>

\* the end of the file: load_logfile returns Ok(()), App::new inserts
LoadDone ==
    /\ pc = "load"
    /\ fs[CurrentFile].kind = "file"
    /\ li > Len(fs[CurrentFile].lines)
    /\ monitors' = Insert(monitors, CurrentFile, monitor[1])
    /\ monitor' = None
    /\ pc' = "add_file"
    /\ UNCHANGED <<processed, appended, opt, fs, NEXT_MONITOR, fi, li, registered,
                   raw_mode, alt_screen, main_view, chan, txAlive, rxAlive, tailq, sent,
                   delivered, evHandled, lnHandled>>
    /\ UNCHANGED <<evVars, newVars>>

\* logfiles.add_file(&f).await: the tail source (linemux) accepts the path
\* or refuses it
AddFileOk ==
    /\ pc = "add_file"
    /\ registered' = registered \cup {CurrentFile}
    /\ IF fi < Len(opt.files)
       THEN fi' = fi + 1 /\ pc' = "new"
       ELSE fi' = fi /\ pc' = "term_init"
    /\ UNCHANGED <<monVars, opt, fs, NEXT_MONITOR, li, monitor, raw_mode, alt_screen,
                   main_view, chan, txAlive, rxAlive, tailq, sent, delivered,
                   evHandled, lnHandled>>
    /\ UNCHANGED <<evVars, newVars>>

\* App::new returns Err(e); main returns at once
AddFileErr ==
    /\ pc = "add_file"
    /\ pc' = "startup_failed"
    /\ UNCHANGED <<monVars, opt, fs, NEXT_MONITOR, fi, li, monitor, registered,
                   raw_mode, alt_screen, main_view, chan, txAlive, rxAlive, tailq, sent,
                   delivered, evHandled, lnHandled>>
    /\ UNCHANGED <<evVars, newVars>>

\* main: terminal initialization, initialise_events, terminal.clear
TermInitOk ==
    /\ pc = "term_init"
    /\ raw_mode' = TRUE
    /\ alt_screen' = TRUE
    /\ txAlive' = TRUE
    /\ rxAlive' = TRUE
    /\ pc' = "draw"
    /\ UNCHANGED <<monVars, opt, fs, NEXT_MONITOR, fi, li, monitor, registered,
                   main_view, chan, tailq, sent, delivered, evHandled, lnHandled>>
    /\ UNCHANGED <<evVars, newVars>>

\* one of its calls returns an error, which `?` returns from main
TermInitErr(stage) ==
    /\ pc = "term_init"
    /\ raw_mode' = (stage # "enable_raw_mode")
    /\ alt_screen' = (stage \in {"new", "clear"})
    /\ txAlive' = (stage = "clear")
    /\ rxAlive' = FALSE
    /\ pc' = "term_init_failed"
    /\ UNCHANGED <<monVars, opt, fs, NEXT_MONITOR, fi, li, monitor, registered,
                   main_view, chan, tailq, sent, delivered, evHandled, lnHandled>>
    /\ UNCHANGED <<evVars, newVars>>

\* the loop: terminal.draw(...)?
DrawOk ==
    /\ pc = "draw"
    /\ pc' = "select"
    /\ UNCHANGED <<monVars, opt, fs, NEXT_MONITOR, fi, li, monitor, registered,
                   raw_mode, alt_screen, main_view, chan, txAlive, rxAlive, tailq, sent,
                   delivered, evHandled, lnHandled>>
    /\ UNCHANGED <<evVars, newVars>>

DrawErr ==
    /\ pc = "draw"
    /\ pc' = "error_exit"
    /\ rxAlive' = FALSE
    /\ UNCHANGED <<monVars, opt, fs, NEXT_MONITOR, fi, li, monitor, registered,
                   raw_mode, alt_screen, main_view, chan, txAlive, tailq, sent, delivered,
                   evHandled, lnHandled>>
    /\ UNCHANGED <<evVars, newVars>>

\* a variant that sends a tailed line through the metrics engine as well
handle_tailed_line_metrics(mon, line) == process_line(mon, line)

\* Some(monitor) => monitor.append_to_content(line.line())?
handle_tailed_line(mon, line) == append_to_content(mon, line)

\* select!: logfiles_future is polled and is ready with a line
SelectLine ==
    /\ pc = "select"
    /\ tailq # << >>
    /\ Head(tailq).kind = "line"
    /\ LET item == Head(tailq)
       IN /\ IF item.source \in DOMAIN monitors
             THEN /\ monitors' = [monitors EXCEPT ![item.source] =
                                      handle_tailed_line(@, item.line)]
                  /\ appended' = [appended EXCEPT ![item.source] = Append(@, item.line)]
             ELSE UNCHANGED <<monitors, appended>>
          /\ lnHandled' = Append(lnHandled, item)
    /\ tailq' = Tail(tailq)
    /\ pc' = "draw"
    /\ UNCHANGED <<processed, opt, fs, NEXT_MONITOR, fi, li, monitor, registered,
                   raw_mode, alt_screen, main_view, chan, txAlive, rxAlive, sent, delivered,
                   evHandled>>
    /\ UNCHANGED <<evVars, newVars>>

\* Some(Err(e)) => panic!("{}", e)
SelectLineErr ==
    /\ pc = "select"
    /\ tailq # << >>
    /\ Head(tailq).kind = "err"
    /\ lnHandled' = Append(lnHandled, Head(tailq))
    /\ tailq' = Tail(tailq)
    /\ pc' = "panicked"
    /\ rxAlive' = FALSE
    /\ UNCHANGED <<monVars, opt, fs, NEXT_MONITOR, fi, li, monitor, registered,
                   raw_mode, alt_screen, main_view, chan, txAlive, sent, delivered, evHandled>>
    /\ UNCHANGED <<evVars, newVars>>

\* select!: events_future is polled, either first (the order is shuffled) or
\* after logfiles_future was Pending.  next_event calls rx.recv(), which
\* blocks the thread until an event or a disconnect.
PollEvents ==
    /\ pc = "select"
    /\ pc' = "recv"
    /\ UNCHANGED <<monVars, opt, fs, NEXT_MONITOR, fi, li, monitor, registered,
                   raw_mode, alt_screen, main_view, chan, txAlive, rxAlive, tailq, sent,
                   delivered, evHandled, lnHandled>>
    /\ UNCHANGED <<evVars, newVars>>

\* main_view after a key; the other keys leave it
view_after(view, code) ==
    CASE code \in {"h", "H"} -> "DashHorizontal"
      [] code \in {"v", "V"} -> "DashVertical"
      [] code = "D" -> "DashDebug"
      [] OTHER -> view

IsQuit(e) == e.kind = "Input" /\ e.code \in {"q", "Q"}

\* rx.recv() returns Ok(event); the arm of the select! handles it
RecvEvent ==
    /\ pc = "recv"
    /\ chan # << >>
    /\ LET e == Head(chan)
       IN /\ evHandled' = Append(evHandled, e)
          /\ IF IsQuit(e)
             THEN /\ raw_mode' = FALSE
                  /\ alt_screen' = FALSE
                  /\ pc' = "done"
                  /\ rxAlive' = FALSE
                  /\ UNCHANGED main_view
             ELSE /\ main_view' = IF e.kind = "Input"
                                  THEN view_after(main_view, e.code)
                                  ELSE main_view
                  /\ pc' = "draw"
                  /\ UNCHANGED <<raw_mode, alt_screen, rxAlive>>
    /\ chan' = Tail(chan)
    /\ UNCHANGED <<monVars, opt, fs, NEXT_MONITOR, fi, li, monitor, registered,
                   txAlive, tailq, sent, delivered, lnHandled>>
    /\ UNCHANGED <<evVars, newVars>>

\* the quit arm, when one of its calls returns an error, which `?` returns
\* from main: disable_raw_mode()?, execute!(.., LeaveAlternateScreen, ..)?,
\* terminal.show_cursor()?
RecvQuitErr(stage) ==
    /\ pc = "recv"
    /\ chan # << >>
    /\ IsQuit(Head(chan))
    /\ evHandled' = Append(evHandled, Head(chan))
    /\ chan' = Tail(chan)
    /\ raw_mode' = (stage = "disable_raw_mode")
    /\ alt_screen' = (stage # "show_cursor")
    /\ pc' = "error_exit"
    /\ rxAlive' = FALSE
    /\ UNCHANGED <<monVars, opt, fs, NEXT_MONITOR, fi, li, monitor, registered,
                   main_view, txAlive, tailq, sent, delivered, lnHandled>>
    /\ UNCHANGED <<evVars, newVars>>

\* rx.recv() returns Err(RecvError): the Sender is gone and the channel
\* empty; the arm prints the error
RecvErr ==
    /\ pc = "recv"
    /\ chan = << >>
    /\ ~txAlive
    /\ pc' = "draw"
    /\ UNCHANGED <<monVars, opt, fs, NEXT_MONITOR, fi, li, monitor, registered,
                   raw_mode, alt_screen, main_view, chan, txAlive, rxAlive, tailq, sent,
                   delivered, evHandled, lnHandled>>
    /\ UNCHANGED <<evVars, newVars>>

\* the background thread sends an event
MuxSend(e) ==
    /\ txAlive
    /\ rxAlive
    /\ Len(sent) < MaxEvents
    /\ chan' = Append(chan, e)
    /\ sent' = Append(sent, e)
    /\ UNCHANGED <<monVars, opt, fs, NEXT_MONITOR, pc, fi, li, monitor, registered,
                   raw_mode, alt_screen, main_view, txAlive, rxAlive, tailq, delivered,
                   evHandled, lnHandled>>
    /\ UNCHANGED <<evVars, newVars>>

\* the background thread panics (an unwrap, or the Duration subtraction)
\* and drops the Sender
MuxDie ==
    /\ txAlive
    /\ rxAlive
    /\ txAlive' = FALSE
    /\ UNCHANGED <<monVars, opt, fs, NEXT_MONITOR, pc, fi, li, monitor, registered,
                   raw_mode, alt_screen, main_view, chan, rxAlive, tailq, sent, delivered,
                   evHandled, lnHandled>>
    /\ UNCHANGED <<evVars, newVars>>

\* the tail source has a new item ready
TailDeliver(item) ==
    /\ pc \in {"draw", "select", "recv"}
    /\ Len(delivered) < MaxTail
    /\ tailq' = Append(tailq, item)
    /\ delivered' = Append(delivered, item)
    /\ UNCHANGED <<monVars, opt, fs, NEXT_MONITOR, pc, fi, li, monitor, registered,
                   raw_mode, alt_screen, main_view, chan, txAlive, rxAlive, sent, evHandled,
                   lnHandled>>
    /\ UNCHANGED <<evVars, newVars>>

Next ==
    \/ NewMonitor
    \/ OpenLogfileErr
    \/ OpenLogfileOk
    \/ LoadLine
    \/ LoadPanic
    \/ LoadDone
    \/ AddFileOk
    \/ AddFileErr
    \/ TermInitOk
    \/ \E stage \in {"enable_raw_mode", "execute", "new", "clear"} : TermInitErr(stage)
    \/ DrawOk
    \/ DrawErr
    \/ SelectLine
    \/ SelectLineErr
    \/ PollEvents
    \/ RecvEvent
    \/ \E stage \in {"disable_raw_mode", "execute", "show_cursor"} : RecvQuitErr(stage)
    \/ RecvErr
    \/ \E e \in Events : MuxSend(e)
    \/ MuxDie
    \/ \E item \in TailItems : TailDeliver(item)

Spec == Init /\ [][Next]_vars

\* ------------------------------------------------------------------------
\* The events specification: the background thread of initialise_events,
\* step by step, against the clock, with the loop of main as its receiver
\* (no tailed lines).  It starts where main has spawned the thread.
\* ------------------------------------------------------------------------
\* the clock stops at MaxTime; tick intervals 0..MaxTickRate are tried
MaxTime == 3
MaxTickRate == 2

restOfProgram ==
    <<monVars, opt, fs, NEXT_MONITOR, pc, fi, li, monitor, registered, raw_mode, alt_screen,
      main_view, tailq, delivered, evHandled, lnHandled>>

InitEvents ==
    /\ monitors = [p \in {"a"} |-> LogMonitor_new(0, "a", 0)]
    /\ NoHistory
    /\ opt = [files |-> <<"a">>, lines_max |-> 0, ignore_existing |-> TRUE]
    /\ fs = [p \in Paths |-> [kind |-> "missing", lines |-> << >>]]
    /\ NEXT_MONITOR = 1
    /\ pc = "draw"
    /\ fi = 1
    /\ li = 1
    /\ monitor = None
    /\ registered = {"a"}
    /\ raw_mode = TRUE
    /\ alt_screen = TRUE
    /\ main_view = "DashHorizontal"
    /\ chan = << >>
    /\ txAlive = TRUE
    /\ rxAlive = TRUE
    /\ tailq = << >>
    /\ sent = << >>
    /\ delivered = << >>
    /\ evHandled = << >>
    /\ lnHandled = << >>
    /\ tick_rate \in 0..MaxTickRate
    /\ EventsAtStart
    /\ NoCallers

\* last_tick.elapsed()
elapsed == now - last_tick

\* the condition of both tick checks
tick_due == elapsed >= tick_rate

\* let mut last_tick = Instant::now();
BgStart ==
    /\ bgpc = "start"
    /\ last_tick' = now
    /\ bgpc' = "poll"
    /\ UNCHANGED <<restOfProgram, chan, txAlive, rxAlive, sent, tick_rate, now,
                   poll_deadline, iterTicks, lastSend, newVars>>

\* event::poll(tick_rate - last_tick.elapsed()) is entered
BgPollBegin ==
    /\ bgpc = "poll"
    /\ elapsed <= tick_rate
    /\ poll_deadline' = now + (tick_rate - elapsed)
    /\ iterTicks' = << >>
    /\ bgpc' = "polling"
    /\ UNCHANGED <<restOfProgram, chan, txAlive, rxAlive, sent, tick_rate, now,
                   last_tick, lastSend, newVars>>

\* the Duration subtraction underflows and panics
BgPollUnderflow ==
    /\ bgpc = "poll"
    /\ elapsed > tick_rate
    /\ bgpc' = "panicked"
    /\ txAlive' = FALSE
    /\ UNCHANGED <<restOfProgram, chan, rxAlive, sent, tick_rate, now, last_tick,
                   poll_deadline, iterTicks, lastSend, newVars>>

\* poll returns true in time, read returns a key: tx.send(Event::Input(key))
BgInputSend(code) ==
    /\ bgpc = "polling"
    /\ now <= poll_deadline
    /\ rxAlive
    /\ Len(sent) < MaxEvents
    /\ chan' = Append(chan, InputEvent(code))
    /\ sent' = Append(sent, InputEvent(code))
    /\ lastSend' = "ok"
    /\ bgpc' = "check1"
    /\ UNCHANGED <<restOfProgram, txAlive, rxAlive, tick_rate, now, last_tick,
                   poll_deadline, iterTicks, newVars>>

\* ... and the receiver is gone: unwrap panics
BgInputSendFail(code) ==
    /\ bgpc = "polling"
    /\ now <= poll_deadline
    /\ ~rxAlive
    /\ lastSend' = "failed"
    /\ bgpc' = "panicked"
    /\ txAlive' = FALSE
    /\ UNCHANGED <<restOfProgram, chan, rxAlive, sent, tick_rate, now, last_tick,
                   poll_deadline, iterTicks, newVars>>

\* poll returns true, read returns an event that is no key (mouse, resize)
BgOtherEvent ==
    /\ bgpc = "polling"
    /\ now <= poll_deadline
    /\ bgpc' = "check1"
    /\ UNCHANGED <<restOfProgram, chan, txAlive, rxAlive, sent, tick_rate, now,
                   last_tick, poll_deadline, iterTicks, lastSend, newVars>>

\* poll returns false: the timeout has passed
BgPollTimeout ==
    /\ bgpc = "polling"
    /\ now >= poll_deadline
    /\ bgpc' = "check1"
    /\ UNCHANGED <<restOfProgram, chan, txAlive, rxAlive, sent, tick_rate, now,
                   last_tick, poll_deadline, iterTicks, lastSend, newVars>>

\* poll or read returns an error: unwrap panics
BgPollPanic ==
    /\ bgpc = "polling"
    /\ bgpc' = "panicked"
    /\ txAlive' = FALSE
    /\ UNCHANGED <<restOfProgram, chan, rxAlive, sent, tick_rate, now, last_tick,
                   poll_deadline, iterTicks, lastSend, newVars>>

\* the first tick check: tx.send(Event::Tick).unwrap()
BgCheck1Send ==
    /\ bgpc = "check1"
    /\ tick_due
    /\ rxAlive
    /\ Len(sent) < MaxEvents
    /\ chan' = Append(chan, TickEvent)
    /\ sent' = Append(sent, TickEvent)
    /\ iterTicks' = Append(iterTicks, last_tick + tick_rate)
    /\ lastSend' = "ok"
    /\ bgpc' = "reset1"
    /\ UNCHANGED <<restOfProgram, txAlive, rxAlive, tick_rate, now, last_tick,
                   poll_deadline, newVars>>

BgCheck1SendFail ==
    /\ bgpc = "check1"
    /\ tick_due
    /\ ~rxAlive
    /\ lastSend' = "failed"
    /\ bgpc' = "panicked"
    /\ txAlive' = FALSE
    /\ UNCHANGED <<restOfProgram, chan, rxAlive, sent, tick_rate, now, last_tick,
                   poll_deadline, iterTicks, newVars>>

BgCheck1Skip ==
    /\ bgpc = "check1"
    /\ ~tick_due
    /\ bgpc' = "check2"
    /\ UNCHANGED <<restOfProgram, chan, txAlive, rxAlive, sent, tick_rate, now,
                   last_tick, poll_deadline, iterTicks, lastSend, newVars>>

\* last_tick = Instant::now(); after the first check
BgReset1 ==
    /\ bgpc = "reset1"
    /\ last_tick' = now
    /\ bgpc' = "check2"
    /\ UNCHANGED <<restOfProgram, chan, txAlive, rxAlive, sent, tick_rate, now,
                   poll_deadline, iterTicks, lastSend, newVars>>

\* the second tick check: match tx.send(Event::Tick) { Ok(()) => ...
BgCheck2Send ==
    /\ bgpc = "check2"
    /\ tick_due
    /\ rxAlive
    /\ Len(sent) < MaxEvents
    /\ chan' = Append(chan, TickEvent)
    /\ sent' = Append(sent, TickEvent)
    /\ iterTicks' = Append(iterTicks, last_tick + tick_rate)
    /\ lastSend' = "ok"
    /\ bgpc' = "reset2"
    /\ UNCHANGED <<restOfProgram, txAlive, rxAlive, tick_rate, now, last_tick,
                   poll_deadline, newVars>>

\* ... Err(e) => println!("send error: {}", e): the loop goes on
BgCheck2SendFail ==
    /\ bgpc = "check2"
    /\ tick_due
    /\ ~rxAlive
    /\ lastSend' = "failed"
    /\ bgpc' = "poll"
    /\ UNCHANGED <<restOfProgram, chan, txAlive, rxAlive, sent, tick_rate, now,
                   last_tick, poll_deadline, iterTicks, newVars>>

BgCheck2Skip ==
    /\ bgpc = "check2"
    /\ ~tick_due
    /\ bgpc' = "poll"
    /\ UNCHANGED <<restOfProgram, chan, txAlive, rxAlive, sent, tick_rate, now,
                   last_tick, poll_deadline, iterTicks, lastSend, newVars>>

\* Ok(()) => last_tick = Instant::now()
BgReset2 ==
    /\ bgpc = "reset2"
    /\ last_tick' = now
    /\ bgpc' = "poll"
    /\ UNCHANGED <<restOfProgram, chan, txAlive, rxAlive, sent, tick_rate, now,
                   poll_deadline, iterTicks, lastSend, newVars>>

\* time passes
Advance ==
    /\ now < MaxTime
    /\ now' = now + 1
    /\ UNCHANGED <<restOfProgram, chan, txAlive, rxAlive, sent, tick_rate,
                   last_tick, bgpc, poll_deadline, iterTicks, lastSend, newVars>>

NextEvents ==
    \/ BgStart
    \/ BgPollBegin
    \/ BgPollUnderflow
    \/ \E code \in {"q", "v"} : BgInputSend(code)
    \/ \E code \in {"q", "v"} : BgInputSendFail(code)
    \/ BgOtherEvent
    \/ BgPollTimeout
    \/ BgPollPanic
    \/ BgCheck1Send
    \/ BgCheck1SendFail
    \/ BgCheck1Skip
    \/ BgReset1
    \/ BgCheck2Send
    \/ BgCheck2SendFail
    \/ BgCheck2Skip
    \/ BgReset2
    \/ Advance
    \/ DrawOk
    \/ DrawErr
    \/ PollEvents
    \/ RecvEvent
    \/ \E stage \in {"disable_raw_mode", "execute", "show_cursor"} : RecvQuitErr(stage)
    \/ RecvErr

SpecEvents == InitEvents /\ [][NextEvents]_vars

\* ------------------------------------------------------------------------
\* The constructor specification: LogMonitor::new called by several
\* callers at once, MaxNew times in all
\* ------------------------------------------------------------------------
MaxNew == 3

\* the calls begun so far
CallsBegun == NEXT_MONITOR + Cardinality({c \in Callers : callPc[c] = "called"})

InitNew ==
    /\ monitors = << >>
    /\ NoHistory
    /\ opt \in [files : {<<"a", "b">>}, lines_max : {MaxCap}, ignore_existing : {TRUE}]
    /\ fs = [p \in Paths |-> [kind |-> "missing", lines |-> << >>]]
    /\ ProgramAtStart
    /\ tick_rate = 0
    /\ EventsAtStart
    /\ NoCallers

\* a caller enters LogMonitor::new
CallNew(c) ==
    /\ callPc[c] = "idle"
    /\ CallsBegun < MaxNew
    /\ callPc' = [callPc EXCEPT ![c] = "called"]
    /\ callSeen' = [callSeen EXCEPT ![c] = {created[i].index : i \in 1..Len(created)}]
    /\ UNCHANGED <<monVars, progVars, evVars, callIdx, created, createdSeen>>

\* let index = NEXT_MONITOR.fetch_add(1, Ordering::Relaxed);
FetchIndex(c) ==
    /\ callPc[c] = "called"
    /\ LET fa == fetch_add(NEXT_MONITOR)
       IN /\ callIdx' = [callIdx EXCEPT ![c] = fa.prev]
          /\ NEXT_MONITOR' = fa.next
    /\ callPc' = [callPc EXCEPT ![c] = "fetched"]
    /\ UNCHANGED <<monVars, opt, fs, pc, fi, li, monitor, registered, raw_mode, alt_screen,
                   main_view, chan, txAlive, rxAlive, tailq, sent, delivered,
                   evHandled, lnHandled, evVars, callSeen, created, createdSeen>>

\* LogMonitor { index, ... } is built and returned
ReturnMonitor(c, f) ==
    /\ callPc[c] = "fetched"
    /\ created' = Append(created, LogMonitor_new(callIdx[c], f, opt.lines_max))
    /\ createdSeen' = Append(createdSeen, callSeen[c])
    /\ callPc' = [callPc EXCEPT ![c] = "idle"]
    /\ UNCHANGED <<monVars, progVars, evVars, callIdx, callSeen>>

NextNew ==
    \/ \E c \in Callers : CallNew(c)
    \/ \E c \in Callers : FetchIndex(c)
    \/ \E c \in Callers, f \in Paths : ReturnMonitor(c, f)

SpecNew == InitNew /\ [][NextNew]_vars

\* ------------------------------------------------------------------------
\* The fair specification: the select! loop of main from the first draw on,
\* one monitor, under the scheduling the code relies on.  The background
\* thread sends its events and in the end stops (as it does when its poll
\* timeout underflows); it never stays alive and silent, because it sends a
\* Tick every tick interval.
\* ------------------------------------------------------------------------
InitFair ==
    /\ monitors = [p \in {"a"} |-> LogMonitor_new(0, "a", MaxCap)]
    /\ NoHistory
    /\ opt = [files |-> <<"a">>, lines_max |-> MaxCap, ignore_existing |-> TRUE]
    /\ fs = [p \in Paths |-> IF p = "a" THEN [kind |-> "file", lines |-> SampleFile]
                                         ELSE [kind |-> "missing", lines |-> << >>]]
    /\ NEXT_MONITOR = 1
    /\ pc = "draw"
    /\ fi = 1
    /\ li = 1
    /\ monitor = None
    /\ registered = {"a"}
    /\ raw_mode = TRUE
    /\ alt_screen = TRUE
    /\ main_view = "DashHorizontal"
    /\ chan = << >>
    /\ txAlive = TRUE
    /\ rxAlive = TRUE
    /\ tailq = << >>
    /\ sent = << >>
    /\ delivered = << >>
    /\ evHandled = << >>
    /\ lnHandled = << >>
    /\ tick_rate = 0
    /\ EventsAtStart
    /\ NoCallers

\* the events and tailed items of the fair specification: no quit key (the
\* loop is left by a draw error or a tail error), lines for "a" only
FairEvents == {TickEvent, InputEvent("v")}
FairTailItems == {TailLine("a", L_ELDER), TailErr}

\* a step of the main thread in the loop
MainStep ==
    \/ DrawOk
    \/ DrawErr
    \/ SelectLine
    \/ SelectLineErr
    \/ PollEvents
    \/ RecvEvent
    \/ RecvErr

\* a step of the background thread
MuxStep ==
    \/ \E e \in FairEvents : MuxSend(e)
    \/ MuxDie

NextFair ==
    \/ MainStep
    \/ MuxStep
    \/ \E item \in FairTailItems : TailDeliver(item)

\* a variant of select! that polls events_future first whenever it can
select_fairness_events_first == SF_vars(PollEvents)

\* select! polls its two futures in a pseudo-random order each time it is
\* entered, so neither arm is passed over for ever while it could be taken
select_fairness ==
    /\ SF_vars(SelectLine \/ SelectLineErr)
    /\ SF_vars(PollEvents)

SpecFair ==
    /\ InitFair
    /\ [][NextFair]_vars
    /\ WF_vars(MainStep)
    /\ WF_vars(MuxStep)
    /\ select_fairness

\* ------------------------------------------------------------------------
\* What the documentation says of the sample lines, line by line (§6 of the
\* design: recognized line formats); the claims are stated against these
\* tables, not against the decoder above
\* ------------------------------------------------------------------------
\* structured lines (CCCC <35-char timestamp> [source] message) and banners
DocStructured ==
    {L_INFO1, L_WARN2, L_BADTS, L_ELDER, L_ADULT, L_CHILD, L_INFANT, L_ELDERS,
     L_ADULTS, L_BOTH, L_ADULTSPROMO, L_COUNTS, L_NOVAULT}
DocBanner == {L_START, L_STARTPROMO}
DocDecoded == DocStructured \cup DocBanner
\* lines containing vault.rs and then one of the four state phrases
DocStateShape ==
    {L_ELDER, L_ADULT, L_CHILD, L_INFANT, L_ELDERS, L_ADULTS, L_BOTH,
     L_ADULTSPROMO, L_COUNTS, L_RAWPROMO, L_STARTPROMO}
\* the timestamp a structured line carries itself, when it parses
DocOwnTime(line) ==
    CASE line \in {L_INFO1, L_CHILD, L_INFANT, L_ELDERS, L_BOTH, L_ADULTSPROMO,
                   L_NOVAULT} -> Some(1)
      [] line \in {L_WARN2, L_ELDER, L_ADULTS, L_COUNTS} -> Some(2)
      [] OTHER -> None

Min(a, b) == IF a <= b THEN a ELSE b
LastN(s, n) == SubSeq(s, Len(s) - Min(n, Len(s)) + 1, Len(s))

\* ------------------------------------------------------------------------
\* Claims
\* ------------------------------------------------------------------------

\* C1: after every append_to_content / process_line call, for every capacity
\* N >= 0, the content store holds at most N lines and they are exactly the
\* last min(N, lines appended so far) appended lines, in append order.
C1_ContentIsLastN ==
    \A f \in DOMAIN monitors :
        /\ Len(monitors[f].content) <= monitors[f].max_content
        /\ monitors[f].content = LastN(appended[f], monitors[f].max_content)

\* C1 witness: a store of capacity 2 that has overflowed and dropped its
\* oldest line, which differs from the lines kept.
C1_Witness ==
    /\ "a" \in DOMAIN monitors
    /\ monitors["a"].max_content = 2
    /\ Len(appended["a"]) = 3
    /\ appended["a"][1] # appended["a"][2]
    /\ appended["a"][1] # appended["a"][3]
    /\ monitors["a"].content = <<appended["a"][2], appended["a"][3]>>

\* C4: the lifecycle bracket after a line differs from the bracket before it
\* only if that line was processed by the metrics engine, decodes (structured
\* line or start banner) and has one of the recognized state-line shapes.
C4_BracketChangesOnlyOnStateLine ==
    [][\A f \in DOMAIN monitors :
          (f \in DOMAIN monitors' /\
           monitors'[f].metrics.agebracket # monitors[f].metrics.agebracket)
          => /\ Len(processed'[f]) = Len(processed[f]) + 1
             /\ Last(processed'[f]) \in DocDecoded \cap DocStateShape]_vars

\* C4 witness: from Child, a 'Vault promoted to Elder' entry made the bracket
\* Elder and a following unrelated INFO line left it Elder.
C4_Witness ==
    /\ "a" \in DOMAIN monitors
    /\ processed["a"] = <<L_ELDER, L_INFO1>>
    /\ monitors["a"].metrics.agebracket = "Elder"

\* the times the documentation gives the timeline entries of a history of
\* processed lines: its own time, else the most recent one seen before
RECURSIVE DocEntryTimes(_, _)
DocEntryTimes(hist, lastSeen) ==
    IF hist = << >> THEN << >>
    ELSE LET line == Head(hist)
             own == DocOwnTime(line)
             seen == IF own # None THEN own ELSE lastSeen
         IN IF line \in DocDecoded
            THEN <<seen>> \o DocEntryTimes(Tail(hist), seen)
            ELSE DocEntryTimes(Tail(hist), seen)

\* C5: a decoded entry without a timestamp of its own is stored with the
\* most recently seen timestamp of its stream (None if none was seen); so
\* once a timestamped line was processed, every later timeline entry has a
\* timestamp.
C5_InheritedTimestamp ==
    \A f \in DOMAIN monitors :
        LET tl == monitors[f].metrics.timeline
        IN /\ [i \in 1..Len(tl) |-> tl[i].time] = DocEntryTimes(processed[f], None)
           /\ \A i, j \in 1..Len(tl) :
                 (i < j /\ DocOwnTime(tl[i].logstring) # None) => tl[j].time # None

\* C5 witness: a start banner processed after a timestamped line is in the
\* timeline with that line's time, and an earlier banner with none.
C5_Witness ==
    /\ "a" \in DOMAIN monitors
    /\ processed["a"] = <<L_START, L_INFO1, L_START>>
    /\ LET tl == monitors["a"].metrics.timeline
       IN /\ Len(tl) = 3
          /\ tl[1].time = None
          /\ tl[3].time = Some(1)

\* ------------------------------------------------------------------------
\* Claims about the program
\* ------------------------------------------------------------------------
\* the lines of the handled tailed items whose source is f, in order
RECURSIVE LinesFrom(_, _)
LinesFrom(items, f) ==
    IF items = << >> THEN << >>
    ELSE IF Head(items).kind = "line" /\ Head(items).source = f
         THEN <<Head(items).line>> \o LinesFrom(Tail(items), f)
         ELSE LinesFrom(Tail(items), f)

\* the loop is blocked in rx.recv(): no event is queued and the sender lives
WaitingForEvent == pc = "recv" /\ chan = << >> /\ txAlive

\* no event and no tailed item is lost or handled twice: what was handled
\* and what is still queued make up what was delivered, in order
NothingLostOrRepeated ==
    /\ sent = evHandled \o chan
    /\ delivered = lnHandled \o tailq

C3_LiveLinesBypassMetrics ==
    /\ [](pc = "load" /\ fs[CurrentFile].kind = "file" =>
            LET read == SubSeq(fs[CurrentFile].lines, 1, li - 1)
                tl == monitor[1].metrics.timeline
            IN /\ monitor[1].content = LastN(read, opt.lines_max)
               /\ [i \in 1..Len(tl) |-> tl[i].logstring]
                     = SelectSeq(read, LAMBDA l : l \in DocDecoded))
    /\ [][lnHandled' # lnHandled =>
            LET item == Last(lnHandled')
            IN /\ DOMAIN monitors' = DOMAIN monitors
               /\ \A f \in DOMAIN monitors :
                     /\ monitors'[f].metrics = monitors[f].metrics
                     /\ (item.kind = "line" /\ item.source = f)
                           => monitors'[f].content =
                                 LastN(Append(monitors[f].content, item.line),
                                       monitors[f].max_content)
                     /\ ~(item.kind = "line" /\ item.source = f)
                           => monitors'[f] = monitors[f]]_vars

\* C3 witness: monitor "a" loaded the sample file (two timeline entries,
\* bracket Adult), then a live 'Vault promoted to Elder' line for "a" was
\* handled: it is the last content line, and the metrics are as loaded.
C3_Witness ==
    /\ "a" \in DOMAIN monitors
    /\ processed["a"] = SampleFile
    /\ lnHandled # << >>
    /\ Last(lnHandled) = TailLine("a", L_ELDER)
    /\ monitors["a"].content # << >>
    /\ Last(monitors["a"].content) = L_ELDER
    /\ monitors["a"].metrics.agebracket = "Adult"
    /\ Len(monitors["a"].metrics.timeline) = 2

\* App::new has returned Ok(app)
AppCreated ==
    pc \in {"term_init", "term_init_failed", "draw", "select", "recv", "done",
            "error_exit", "panicked"}

Configured == {opt.files[i] : i \in 1..Len(opt.files)}

\* C9: a configured path without a file gets an empty monitor with initial
\* metrics and is still registered with the tail source; when a file exists
\* but cannot be opened, or when registration fails, App::new returns an
\* error (the loop is never entered).
C9_StartupErrors ==
    /\ pc = "term_init" =>
          \A f \in Configured :
              fs[f].kind = "missing" =>
                  /\ f \in DOMAIN monitors
                  /\ monitors[f].content = << >>
                  /\ monitors[f].metrics = VaultMetrics_new
                  /\ f \in registered
    /\ AppCreated => Configured \subseteq registered
    /\ (AppCreated /\ ~opt.ignore_existing) =>
          \A f \in Configured : fs[f].kind # "denied"

\* C10: in each iteration the next event and the next tailed line are raced
\* and the one that is ready is handled: the loop never waits for an event
\* while a tailed line is ready; the source not handled keeps its items.
C10_FirstReadyWins ==
    /\ NothingLostOrRepeated
    /\ ~(WaitingForEvent /\ tailq # << >>)

\* ------------------------------------------------------------------------
\* Claims about the constructor and the background thread
\* ------------------------------------------------------------------------
\* the indices handed out so far: of the monitors returned and of the calls
\* that hold an index and have not returned yet
IndicesReturned == [i \in 1..Len(created) |-> created[i].index]
Holding == {c \in Callers : callPc[c] = "fetched"}

\* C6: K monitors created in one run, under any interleaving of the callers,
\* have K pairwise distinct indices, and a monitor constructed after another
\* (its call began when the other had been returned) has the larger index.
C6_DistinctIncreasingIndices ==
    /\ \A i, j \in 1..Len(created) : i # j => created[i].index # created[j].index
    /\ \A c \in Holding :
          /\ \A i \in 1..Len(created) : created[i].index # callIdx[c]
          /\ \A d \in Holding : c # d => callIdx[c] # callIdx[d]
          /\ \A k \in callSeen[c] : k < callIdx[c]
    /\ \A i \in 1..Len(created) : \A k \in createdSeen[i] : k < created[i].index

\* C6 witness: three monitors were returned, the first two by overlapping
\* calls and in the opposite order of their indices, the third by a call
\* that began after both.
C6_Witness ==
    /\ Len(created) = 3
    /\ created[1].index = 1
    /\ created[2].index = 0
    /\ createdSeen[3] = {0, 1}
    /\ created[3].index = 2
    /\ created[1].logfile # created[2].logfile

\* C7: the two tick checks of one turn of the background loop never both
\* send a Tick for the same deadline (last_tick + tick_rate at the check).
C7_OneTickPerDeadline ==
    \A i, j \in 1..Len(iterTicks) : i # j => iterTicks[i] # iterTicks[j]

\* C8: when the receiver is gone, a send the background thread attempts
\* fails and ends the thread: after a failed send the thread has panicked,
\* it is never back in its loop.
C8_SendFailureIsFatal ==
    lastSend = "failed" => bgpc = "panicked"

\* ------------------------------------------------------------------------
\* Claims about quitting and the terminal
\* ------------------------------------------------------------------------
\* the layout the design gives after a history of handled events: h/H, v/V
\* and D switch it, every other key and every Tick leave it
RECURSIVE DocViewAfter(_, _)
DocViewAfter(view, hist) ==
    IF hist = << >> THEN view
    ELSE LET e == Head(hist)
             v == IF e.kind = "Input" /\ e.code = "v" THEN "DashVertical" ELSE view
         IN DocViewAfter(v, Tail(hist))

\* main has left the loop: break Ok(()), a `?` inside the loop, or the panic
LoopLeft == pc \in {"done", "error_exit", "panicked"}

\* C11: once the loop has handled a quit key it has ended cleanly with raw
\* mode disabled and the alternate screen left; the loop ends cleanly only
\* by a quit key (never by another key, a Tick or a tailed line); and the
\* layout is what the recognised layout keys made it, an unrecognised key
\* having changed nothing.
C11_QuitRestoresTerminal ==
    /\ (evHandled # << >> /\ IsQuit(Last(evHandled)))
          => (pc = "done" /\ ~raw_mode /\ ~alt_screen)
    /\ pc = "done" => (evHandled # << >> /\ IsQuit(Last(evHandled)))
    /\ main_view = DocViewAfter("DashHorizontal", evHandled)

\* C12: whenever the process has left the interactive loop after the
\* terminal was put into raw mode (by quit, by an error return of draw or
\* of the quit arm, or by the panic on a tail-stream error), raw mode is
\* disabled and the alternate screen left.
C12_TerminalRestoredOnEveryExit ==
    LoopLeft => (~raw_mode /\ ~alt_screen)

\* ------------------------------------------------------------------------
\* Claims about the metrics engine
\* ------------------------------------------------------------------------
\* the sample entries of the shape 'Initializing new Vault as X' or 'Vault
\* promoted to X' after vault.rs and carrying no count report, with the
\* bracket the design gives for X
DocBracketLines == {L_ELDER, L_ADULT, L_CHILD, L_INFANT, L_STARTPROMO}
DocBracket(line) ==
    CASE line = L_ELDER -> "Elder"
      [] line \in {L_ADULT, L_STARTPROMO} -> "Adult"
      [] line = L_CHILD -> "Child"
      [] line = L_INFANT -> "Unknown"

\* C13: a new metrics engine has bracket Child; after processing an entry
\* 'Initializing new Vault as X' or 'Vault promoted to X' (vault.rs in the
\* text) the bracket is X for X = Child, Adult, Elder and Unknown for any
\* other word, whatever the bracket was before.
C13_BracketTransitions ==
    \A f \in DOMAIN monitors :
        LET hist == processed[f]
            bracket == monitors[f].metrics.agebracket
        IN /\ hist = << >> => bracket = "Child"
           /\ (hist # << >> /\ Last(hist) \in DocBracketLines)
                 => bracket = DocBracket(Last(hist))

\* C13 witness: from Elder, 'Initializing new Vault as Infant' made the
\* bracket Unknown.
C13_Witness ==
    /\ "a" \in DOMAIN monitors
    /\ processed["a"] = <<L_ELDER, L_INFANT>>
    /\ monitors["a"].metrics.agebracket = "Unknown"
    /\ monitors["a"].metrics.parser_output = <<"Vault agebracket:", "Infant">>

\* the sample entries whose text holds a count report after vault.rs, and
\* the number reported
DocElderCountLines == {L_ELDERS, L_BOTH, L_COUNTS}
DocAdultCountLines == {L_ADULTS, L_ADULTSPROMO}
DocCount(line) == IF line \in DocElderCountLines THEN 7 ELSE 3

\* C14: after processing an entry with an elder-count report the engine's
\* elder count is the reported number, after one with an adult-count report
\* its adult count is the reported number, and the bracket is the one the
\* entry before had left (Child when it is the first entry).
C14_CountReportsRecorded ==
    \A f \in DOMAIN monitors :
        LET hist == processed[f]
            m == monitors[f].metrics
            n == Len(hist)
        IN /\ (n > 0 /\ hist[n] \in DocElderCountLines) => m.elders = DocCount(hist[n])
           /\ (n > 0 /\ hist[n] \in DocAdultCountLines) => m.adults = DocCount(hist[n])
           /\ (n = 1 /\ hist[n] \in DocElderCountLines \cup DocAdultCountLines)
                 => m.agebracket = "Child"
           /\ (n > 1 /\ hist[n] \in DocElderCountLines \cup DocAdultCountLines
                     /\ hist[n - 1] \in DocBracketLines)
                 => m.agebracket = DocBracket(hist[n - 1])

\* the sample entries that hold several recognised shapes, and what the
\* design has the engine report for each: only the rule of highest priority
DocMultiShapeLines == {L_BOTH, L_ADULTSPROMO, L_COUNTS}
DocRuleFired(line) ==
    CASE line \in {L_BOTH, L_COUNTS} -> <<"ELDERS:", "7">>
      [] line = L_ADULTSPROMO -> <<"ADULTS:", "3">>

\* C15: an entry holding several recognised shapes applies one rule only,
\* elder-count before adult-count before bracket-change: the engine reports
\* that rule alone and the bracket stays as the entry before had left it
\* (Child when it is the first entry), although the text names a bracket.
C15_OneRuleByPriority ==
    \A f \in DOMAIN monitors :
        LET hist == processed[f]
            m == monitors[f].metrics
            n == Len(hist)
        IN (n > 0 /\ hist[n] \in DocMultiShapeLines)
              => /\ m.parser_output = DocRuleFired(hist[n])
                 /\ n = 1 => m.agebracket = "Child"
                 /\ (n > 1 /\ hist[n - 1] \in DocBracketLines)
                       => m.agebracket = DocBracket(hist[n - 1])

\* C15 witness: with the bracket at Adult, an entry holding both 'Vault
\* promoted to Elder' and an elder-count report was processed, and the
\* bracket is still Adult.
C15_Witness ==
    /\ "a" \in DOMAIN monitors
    /\ processed["a"] = <<L_ADULT, L_BOTH>>
    /\ monitors["a"].metrics.agebracket = "Adult"
    /\ monitors["a"].metrics.parser_output = <<"ELDERS:", "7">>

\* C16: the timeline holds exactly the processed lines that decode (by the
\* primary pattern or as a start banner), each once and in the order they
\* were processed, so it only ever grows at its end; processing a line that
\* does not decode leaves every metric as it was and still appends the line
\* to the content store.
C16_TimelineAppendOnly ==
    /\ [](\A f \in DOMAIN monitors :
             LET tl == monitors[f].metrics.timeline
             IN [i \in 1..Len(tl) |-> tl[i].logstring]
                   = SelectSeq(processed[f], LAMBDA l : l \in DocDecoded))
    /\ [][\A f \in DOMAIN monitors :
             (f \in DOMAIN monitors' /\ processed'[f] # processed[f])
             => LET line == Last(processed'[f])
                    tl == monitors[f].metrics.timeline
                    tlAfter == monitors'[f].metrics.timeline
                IN /\ Len(tlAfter) >= Len(tl)
                   /\ SubSeq(tlAfter, 1, Len(tl)) = tl
                   /\ line \in DocDecoded
                         => /\ Len(tlAfter) = Len(tl) + 1
                            /\ Last(tlAfter).logstring = line
                   /\ line \notin DocDecoded
                         => /\ monitors'[f].metrics = monitors[f].metrics
                            /\ monitors'[f].content =
                                  LastN(Append(monitors[f].content, line),
                                        monitors[f].max_content)]_vars

\* C16 witness: of three processed lines the second did not decode; the
\* timeline holds the first and the third, and a content store of capacity
\* 2 holds the second and the third.
C16_Witness ==
    /\ "a" \in DOMAIN monitors
    /\ processed["a"] = <<L_INFO1, L_RAWPROMO, L_ELDER>>
    /\ monitors["a"].max_content = 2
    /\ Len(monitors["a"].metrics.timeline) = 2
    /\ monitors["a"].metrics.timeline[2].logstring = L_ELDER
    /\ monitors["a"].content = <<L_RAWPROMO, L_ELDER>>

\* the version a sample banner names: what follows 'Running safe-vault '
DocVersion(line) ==
    IF line = L_START THEN <<"v0.24.0">>
    ELSE <<"vault.rs", "Vault", "promoted", "to", "Adult">>

\* the timestamp of the last line of a history that carries one of its own
RECURSIVE DocMostRecent(_)
DocMostRecent(hist) ==
    IF hist = << >> THEN None
    ELSE IF DocOwnTime(Last(hist)) # None THEN DocOwnTime(Last(hist))
    ELSE DocMostRecent(Front(hist))

\* the positions of the start banners in a history
DocBannersIn(hist) == {i \in 1..Len(hist) : hist[i] \in DocBanner}

\* C17: only lines the primary pattern does not match are taken as start
\* banners; while no banner was processed the engine has no running version
\* and no start timestamp; afterwards they are those of the last banner
\* processed: the rest of its line after 'Running safe-vault ', and the most
\* recent timestamp known when it was processed (none if none was); its
\* timeline entry has category START and the whole line as message.  Lines
\* that are no banner leave both as they were.
C17_StartBanner ==
    \A f \in DOMAIN monitors :
        LET hist == processed[f]
            m == monitors[f].metrics
            tl == m.timeline
            bs == DocBannersIn(hist)
        IN /\ \A i \in 1..Len(tl) :
                 /\ tl[i].category = "START" <=> tl[i].logstring \in DocBanner
                 /\ tl[i].category = "START" => tl[i].message = tl[i].logstring
                 /\ tl[i].category = "START" => tl[i].logstring \notin DocStructured
           /\ bs = {} => (m.running_version = None /\ m.vault_started = None)
           /\ bs # {} =>
                 LET k == MaxOf(bs)
                 IN /\ m.running_version = Some(DocVersion(hist[k]))
                    /\ m.vault_started = DocMostRecent(SubSeq(hist, 1, k - 1))

\* C17 witness: a banner processed after a line stamped 1 and before a
\* line stamped 2: the version is v0.24.0 and the start timestamp 1.
C17_Witness ==
    /\ "a" \in DOMAIN monitors
    /\ processed["a"] = <<L_INFO1, L_START, L_ELDER>>
    /\ monitors["a"].metrics.running_version = Some(<<"v0.24.0">>)
    /\ monitors["a"].metrics.vault_started = Some(1)
    /\ monitors["a"].metrics.timeline[2].category = "START"

\* the timestamps of the lines of a history that carry one of their own
RECURSIVE DocOwnTimes(_)
DocOwnTimes(hist) ==
    IF hist = << >> THEN << >>
    ELSE DocOwnTimes(Front(hist)) \o DocOwnTime(Last(hist))

NonDecreasing(times) == \A i, j \in 1..Len(times) : i <= j => times[i] <= times[j]

\* C20: the most-recent timestamp of a metrics engine is the timestamp of
\* the last processed line that decoded with a parsed timestamp of its own
\* (none before the first such line), so it changes only when such a line
\* is processed and is never reset to none; and as long as the timestamped
\* lines have arrived in non-decreasing order it never decreases.
C20_MostRecentMonotonic ==
    /\ [](\A f \in DOMAIN monitors :
             monitors[f].metrics.most_recent = DocMostRecent(processed[f]))
    /\ [][\A f \in DOMAIN monitors :
             f \in DOMAIN monitors' =>
                LET before == monitors[f].metrics.most_recent
                    after == monitors'[f].metrics.most_recent
                IN /\ before # None => after # None
                   /\ after # before
                         => /\ processed'[f] # processed[f]
                            /\ after = DocOwnTime(Last(processed'[f]))
                   /\ (before # None /\ NonDecreasing(DocOwnTimes(processed'[f])))
                         => after[1] >= before[1]]_vars

\* C20 witness: after a line stamped 2, a banner and a line with a
\* malformed timestamp were processed and the most-recent timestamp is
\* still 2.
C20_Witness ==
    /\ "a" \in DOMAIN monitors
    /\ processed["a"] = <<L_ELDER, L_START, L_BADTS>>
    /\ monitors["a"].metrics.most_recent = Some(2)
    /\ Len(monitors["a"].metrics.timeline) = 3

\* ------------------------------------------------------------------------
\* Claims about the poll timeout and about starvation
\* ------------------------------------------------------------------------
\* C19: whenever the background thread is about to compute the poll timeout
\* tick_rate - last_tick.elapsed(), the time elapsed since the last tick
\* does not exceed the tick interval, so the subtraction cannot underflow.
C19_PollTimeoutNoUnderflow ==
    bgpc = "poll" => elapsed <= tick_rate

\* C18: under fair scheduling, every tailed item the tail source has
\* delivered is in the end handled, a line for a monitored path by being
\* appended to that monitor's content, even while events arrive; every
\* event sent on the channel is in the end handled, even while tailed lines
\* arrive; and the loop does not stay in rx.recv() while a tailed item is
\* ready.  (All three unless main has meanwhile left the loop.)
C18_NoStarvation ==
    /\ \A i \in 1..MaxTail :
          (Len(delivered) >= i)
             ~> (LoopLeft \/
                 /\ Len(lnHandled) >= i
                 /\ lnHandled[i] = delivered[i]
                 /\ \A f \in DOMAIN monitors :
                       /\ appended[f] = LinesFrom(lnHandled, f)
                       /\ monitors[f].content = LastN(appended[f], monitors[f].max_content))
    /\ \A i \in 1..MaxEvents :
          (Len(sent) >= i)
             ~> (LoopLeft \/ (Len(evHandled) >= i /\ evHandled[i] = sent[i]))
    /\ (pc = "recv" /\ tailq # << >>) ~> (pc # "recv")

\* C18 witness: the loop is still running and, with both sources active,
\* has handled two events and two tailed lines for "a", which are in its
\* content.
C18_Witness ==
    /\ pc = "draw"
    /\ Len(evHandled) = 2
    /\ Len(lnHandled) = 2
    /\ \A i \in 1..2 : lnHandled[i].kind = "line" /\ lnHandled[i].source = "a"
    /\ tailq = << >>
    /\ chan = << >>
    /\ Len(monitors["a"].content) = 2

==========================================================================
